---- MODULE Spec2Model ----
(***************************************************************************)
(* A model of the dxCompiler test/glue tooling:                            *)
(*   - dxcint/dxcint/Dependency.py          (Dependency._get_exec,         *)
(*                                           Dependency.update_dot_env)    *)
(*   - dxcint/dxcint/RegisteredTestFactory.py (register_test)              *)
(*   - dxcint/dxcint/testclasses/ExternExpectedOutput.py                   *)
(*   - cwl_runner/dx_cwl_runner/output_utils.py (create_dx_output)         *)
(* Each component has its own specification; the variables of the other    *)
(* components stay at their initial value under it.                        *)
(***************************************************************************)
EXTENDS Integers, Sequences, FiniteSets, TLC

VARIABLES
    fs,            \* Dependency: config -> what is at <root>/<name>/<version>/<name>
    downloads,     \* Dependency: config -> number of wget commands issued
    resolutions,   \* Dependency: the log of _get_exec calls, in order
    instance,      \* update_dot_env: the constructed Dependency (its config)
    dot_env,       \* update_dot_env: the appends made to .env files, in order
    lastUpdate,    \* update_dot_env: the last call and how it ended
    lock,          \* Extern: the test holding context.lock, or 0
    pc,            \* Extern: test -> its place in _compile_executable
    pending,       \* Extern: test -> the exception in flight, or None
    raised,        \* Extern: test -> whether the with-block of this call raised
    calls,         \* Extern: test -> calls of _compile_executable started
    superCalls,    \* Extern: test -> calls of ExpectedOutput._compile_executable
    test_results,  \* Extern: test -> self._test_results
    files,         \* Extern: the local paths that exist
    filesAtStart,  \* Extern: the local paths that existed at the start
    applets,       \* Extern: the native applets found in the project folder
    setupCalls,    \* Extern: calls of _native_call_setup
    buildCalls,    \* Extern: `dx build` commands run
    dxniCalls,     \* Extern: dxni commands run
    job,           \* Output: the arguments of create_dx_output and the job's description
    out,           \* Output: how create_dx_output ended, and what it downloaded
    regLog,        \* Factory: the log of register_test calls, in order
    ctorCalls      \* Factory: the test-type constructors called, in order

depVars == <<fs, downloads, resolutions>>
envVars == <<instance, dot_env, lastUpdate>>
extVars == <<lock, pc, pending, raised, calls, superCalls, test_results, files,
             filesAtStart, applets, setupCalls, buildCalls, dxniCalls>>
outVars == <<job, out>>
facVars == <<regLog, ctorCalls>>
vars == <<depVars, envVars, extVars, outVars, facVars>>

None == "None"

\* ------------------------------------------------------------------------
\* Bounds
\* ------------------------------------------------------------------------
MaxResolves == 3
MaxParts == 2
MaxAppends == 2
NumTests == 2
MaxCalls == 2
MaxList == 2
MaxRegs == 2

\* ------------------------------------------------------------------------
\* Dependency (src/dxcint/dxcint/Dependency.py)
\* ------------------------------------------------------------------------

\* The configuration documents: what __init__ reads from config_file, and the
\* root it derives from the file's place.
Configs ==
    { [root |-> "deps", name |-> "cwltool", version |-> "3.1", source_link |-> "url-a"],
      [root |-> "deps", name |-> "cwltool", version |-> "3.2", source_link |-> "url-b"],
      [root |-> "deps", name |-> "wdlTools", version |-> "3.1", source_link |-> "url-c"] }

\* os.path.join(self._dependencies_root, self._name, self._version, self._name)
local_dependency_dir(c) == <<c.root, c.name, c.version, c.name>>

Absent == [kind |-> "absent", fetched |-> FALSE, mode |-> "unset"]
\* what os.makedirs(local_dependency_dir, exist_ok=True) leaves at the path:
\* the path itself is created, as a directory
Makedirs == [kind |-> "dir", fetched |-> FALSE, mode |-> "unset"]
\* what a wget that exits 0 leaves at the path
Fetched == [kind |-> "file", fetched |-> TRUE, mode |-> "unset"]
\* os.chmod(local_dependency_dir, 0o775)
Chmod(entry) == [entry EXCEPT !.mode = "0o775"]
Artifact == Chmod(Fetched)

\* variant: the existence test always fails
NeverExists(entry) == FALSE
\* os.path.exists(local_dependency_dir)
os_path_exists(entry) == entry.kind # "absent"

\* variant: the except clause wraps the error in a DependencyError
RaiseDependencyError(e) == "DependencyError"
\* the except clause of _get_exec: print stdout and stderr, then `raise e`
Reraise(e) == e

\* What one call of _get_exec does when the path holds `entry` and the wget,
\* if it is run, exits 0 (fetchOk) or not: the entry left at the path, whether
\* a download command was issued, and the path returned or the exception raised.
get_exec(c, entry, fetchOk) ==
    IF os_path_exists(entry)
    THEN [entry |-> entry, downloaded |-> FALSE, exc |-> None,
          path |-> local_dependency_dir(c)]
    ELSE IF fetchOk
         THEN [entry |-> Chmod(Fetched), downloaded |-> TRUE, exc |-> None,
               path |-> local_dependency_dir(c)]
         ELSE [entry |-> Makedirs, downloaded |-> TRUE,
               exc |-> Reraise("CalledProcessError"), path |-> <<>>]

\* Dependency.__init__ -> self._get_exec(), for configuration c
Resolve(c, fetchOk) ==
    /\ Len(resolutions) < MaxResolves
    /\ LET r == get_exec(c, fs[c], fetchOk) IN
        /\ fs' = [fs EXCEPT ![c] = r.entry]
        /\ downloads' = [downloads EXCEPT ![c] = @ + (IF r.downloaded THEN 1 ELSE 0)]
        /\ resolutions' = Append(resolutions,
                [cfg |-> c, existed |-> fs[c] # Absent, fetchOk |-> fetchOk,
                 downloaded |-> r.downloaded, exc |-> r.exc, path |-> r.path])
    /\ UNCHANGED <<envVars, extVars, outVars, facVars>>

DepInit ==
    /\ fs \in [Configs -> {Absent, Artifact}]
    /\ downloads = [c \in Configs |-> 0]
    /\ resolutions = <<>>

DepIdle ==
    /\ fs = [c \in Configs |-> Absent]
    /\ downloads = [c \in Configs |-> 0]
    /\ resolutions = <<>>

\* ------------------------------------------------------------------------
\* Dependency.update_dot_env
\* ------------------------------------------------------------------------

\* Strings are sequences of characters; a home_dir is built from these pieces.
Chars(piece) ==
    CASE piece = "/" -> <<"/">>
      [] piece = "dnanexus" -> <<"d", "n", "a", "n", "e", "x", "u", "s">>
      [] piece = "home/dnanexus" ->
            <<"h", "o", "m", "e", "/", "d", "n", "a", "n", "e", "x", "u", "s">>

Pieces == {"/", "dnanexus", "home/dnanexus"}

RECURSIVE Flatten(_)
Flatten(ps) == IF ps = <<>> THEN <<>> ELSE Chars(Head(ps)) \o Flatten(Tail(ps))

HomeDirs == UNION { [1..n -> Pieces] : n \in 0..MaxParts }

\* str(home_dir)
Str(home_dir) == Flatten(home_dir)

StartsWith(s, suffix) ==
    /\ Len(suffix) <= Len(s)
    /\ SubSeq(s, 1, Len(suffix)) = suffix
\* s.endswith(suffix)
EndsWith(s, suffix) ==
    /\ Len(suffix) <= Len(s)
    /\ SubSeq(s, Len(s) - Len(suffix) + 1, Len(s)) = suffix

RequiredSuffix == Chars("home/dnanexus")

\* variant: the suffix is looked for anywhere in the text
ContainsSuffix(home_dir) ==
    \E i \in 1..Len(Str(home_dir)) :
        StartsWith(SubSeq(Str(home_dir), i, Len(Str(home_dir))), RequiredSuffix)
\* the guard of update_dot_env: str(home_dir).endswith("home/dnanexus")
suffix_ok(home_dir) == EndsWith(Str(home_dir), RequiredSuffix)

\* f"{self._name}={self._version}\n"
dot_env_line(c) == <<c.name, "=", c.version, "\n">>
\* os.path.join(home_dir, ".env")
dot_env_file(home_dir) == <<home_dir, ".env">>

\* The lines of a .env file: the appends made to it, in order.
RECURSIVE FileLines(_, _)
FileLines(log, file) ==
    IF log = <<>> THEN <<>>
    ELSE IF Head(log).file = file
         THEN <<Head(log).line>> \o FileLines(Tail(log), file)
         ELSE FileLines(Tail(log), file)

\* update_dot_env(home_dir); dirOk: open(dot_env_file, "a") finds the directory
update_dot_env(home_dir, dirOk) ==
    /\ Len(dot_env) < MaxAppends
    /\ IF ~suffix_ok(home_dir)
       THEN /\ lastUpdate' = [home_dir |-> home_dir, exc |-> "DependencyError",
                              ret |-> None, before |-> dot_env, after |-> dot_env]
            /\ UNCHANGED dot_env
       ELSE IF ~dirOk
            THEN /\ lastUpdate' = [home_dir |-> home_dir, exc |-> "FileNotFoundError",
                                   ret |-> None, before |-> dot_env, after |-> dot_env]
                 /\ UNCHANGED dot_env
            ELSE /\ dot_env' = Append(dot_env, [file |-> dot_env_file(home_dir),
                                                line |-> dot_env_line(instance)])
                 /\ lastUpdate' = [home_dir |-> home_dir, exc |-> None, ret |-> "True",
                                   before |-> dot_env, after |-> dot_env']
    /\ UNCHANGED <<instance, depVars, extVars, outVars, facVars>>

NoUpdate == [home_dir |-> <<>>, exc |-> None, ret |-> None,
             before |-> <<>>, after |-> <<>>]

EnvInit ==
    /\ instance \in Configs
    /\ dot_env = <<>>
    /\ lastUpdate = NoUpdate

EnvIdle ==
    /\ instance = CHOOSE c \in Configs : c.version = "3.2"
    /\ dot_env = <<>>
    /\ lastUpdate = NoUpdate

\* ------------------------------------------------------------------------
\* ExternExpectedOutput (src/dxcint/dxcint/testclasses/ExternExpectedOutput.py)
\* ------------------------------------------------------------------------
Tests == 1..NumTests

\* Python values: a str and a tuple are told apart by their type.
PyStr(s) == [type |-> "str", val |-> s]
PyTuple(items) == [type |-> "tuple", val |-> items]

\* os.path.join(repo_root_dir, "dxcint/resources/extern_expected_output/dx_extern.wdl")
dx_extern_wdl == PyStr("repo/dxcint/resources/extern_expected_output/dx_extern.wdl")

\* self._extern_path, as __init__ sets it: the parenthesised os.path.join(...)
\* is followed by a comma, which makes it a tuple of one str
extern_path == PyTuple(<<dx_extern_wdl>>)

\* os.path.exists(path): os.stat raises TypeError for what is no path
path_exists(path, existing) ==
    IF path.type = "str" THEN (IF path \in existing THEN "True" ELSE "False")
    ELSE "TypeError"

\* " ".join(cmdline): every item has to be a str
str_join(cmdline) ==
    IF \A i \in 1..Len(cmdline) : cmdline[i].type = "str" THEN None ELSE "TypeError"

native_applets ==
    <<"native_concat", "native_diff", "native_mk_list", "native_sum", "native_sum_012">>

\* The loop of _native_call_setup over native_applets, from index i on: an
\* applet that find_data_objects does not find is built; the build of applet
\* number failAt exits non-zero (0: none does). The applets found afterwards,
\* the `dx build` commands run and the exception raised.
RECURSIVE build_applets(_, _, _, _)
build_applets(i, found, builds, failAt) ==
    IF i > Len(native_applets) THEN [found |-> found, builds |-> builds, exc |-> None]
    ELSE IF native_applets[i] \in found
         THEN build_applets(i + 1, found, builds, failAt)
         ELSE IF i = failAt
              THEN [found |-> found, builds |-> builds + 1, exc |-> "CalledProcessError"]
              ELSE build_applets(i + 1, found \cup {native_applets[i]}, builds + 1, failAt)

\* native_call_dxni: the command line holds self._extern_path; it is logged
\* with " ".join and then run (dxniOk: it exits 0 and writes the file)
native_call_dxni(path, existing, dxniOk) ==
    LET cmdline_v1 == <<PyStr("java"), PyStr("-jar"), PyStr("dxni"), PyStr("-output"), path>> IN
    IF str_join(cmdline_v1) # None
    THEN [files |-> existing, dxni |-> 0, exc |-> str_join(cmdline_v1)]
    ELSE IF dxniOk
         THEN [files |-> existing \cup {path}, dxni |-> 1, exc |-> None]
         ELSE [files |-> existing, dxni |-> 1, exc |-> "CalledProcessError"]

\* _native_call_setup
native_call_setup(path, existing, found, failAt, dxniOk) ==
    LET b == build_applets(1, found, 0, failAt) IN
    IF b.exc # None
    THEN [files |-> existing, found |-> b.found, builds |-> b.builds, dxni |-> 0,
          exc |-> b.exc]
    ELSE LET d == native_call_dxni(path, existing, dxniOk) IN
         [files |-> d.files, found |-> b.found, builds |-> b.builds, dxni |-> d.dxni,
          exc |-> d.exc]

\* a test runner calls test._compile_executable()
Call(t) ==
    /\ pc[t] = "idle"
    /\ calls[t] < MaxCalls
    /\ calls' = [calls EXCEPT ![t] = @ + 1]
    /\ raised' = [raised EXCEPT ![t] = FALSE]
    /\ pc' = [pc EXCEPT ![t] = "acquire"]
    /\ UNCHANGED <<lock, pending, superCalls, test_results, files, filesAtStart,
                   applets, setupCalls, buildCalls, dxniCalls>>
    /\ UNCHANGED <<depVars, envVars, outVars, facVars>>

\* with self.context.lock: (__enter__)
Acquire(t) ==
    /\ pc[t] = "acquire"
    /\ lock = 0
    /\ lock' = t
    /\ pc' = [pc EXCEPT ![t] = "with_body"]
    /\ UNCHANGED <<pending, raised, calls, superCalls, test_results, files, filesAtStart,
                   applets, setupCalls, buildCalls, dxniCalls>>
    /\ UNCHANGED <<depVars, envVars, outVars, facVars>>

\* the body of the with statement
WithBody(t) ==
    /\ pc[t] = "with_body"
    /\ pc' = [pc EXCEPT ![t] = "with_exit"]
    /\ LET e == path_exists(extern_path, files) IN
       IF e = "TypeError"
       THEN /\ pending' = [pending EXCEPT ![t] = "TypeError"]
            /\ raised' = [raised EXCEPT ![t] = TRUE]
            /\ UNCHANGED <<files, applets, setupCalls, buildCalls, dxniCalls>>
       ELSE IF e = "True"
            THEN UNCHANGED <<pending, raised, files, applets, setupCalls, buildCalls,
                             dxniCalls>>
            ELSE \E failAt \in 0..Len(native_applets), dxniOk \in BOOLEAN :
                   LET r == native_call_setup(extern_path, files, applets, failAt, dxniOk) IN
                    /\ setupCalls' = setupCalls + 1
                    /\ buildCalls' = buildCalls + r.builds
                    /\ dxniCalls' = dxniCalls + r.dxni
                    /\ files' = r.files
                    /\ applets' = r.found
                    /\ pending' = [pending EXCEPT ![t] = r.exc]
                    /\ raised' = [raised EXCEPT ![t] = (r.exc # None)]
    /\ UNCHANGED <<lock, calls, superCalls, test_results, filesAtStart>>
    /\ UNCHANGED <<depVars, envVars, outVars, facVars>>

\* the lock's __exit__: runs however the body ended, and does not suppress
ReleaseLock(holder) == 0

WithExit(t) ==
    /\ pc[t] = "with_exit"
    /\ lock' = ReleaseLock(lock)
    /\ pc' = [pc EXCEPT ![t] = IF pending[t] # None THEN "except" ELSE "super"]
    /\ UNCHANGED <<pending, raised, calls, superCalls, test_results, files, filesAtStart,
                   applets, setupCalls, buildCalls, dxniCalls>>
    /\ UNCHANGED <<depVars, envVars, outVars, facVars>>

\* variant: except OSError
CatchesOSError(exc) == exc \in {"OSError", "FileNotFoundError", "CalledProcessError"}
\* except Exception: the classes it catches
CatchesException(exc) == exc \notin {"KeyboardInterrupt", "SystemExit", "GeneratorExit"}

\* self._test_results = {False, "Error creating extern"}
ErrorCreatingExtern == {"False", "Error creating extern"}

Except(t) ==
    /\ pc[t] = "except"
    /\ IF CatchesException(pending[t])
       THEN /\ test_results' = [test_results EXCEPT ![t] = ErrorCreatingExtern]
            /\ pending' = [pending EXCEPT ![t] = None]
            /\ pc' = [pc EXCEPT ![t] = "super"]
       ELSE /\ pc' = [pc EXCEPT ![t] = "propagated"]
            /\ UNCHANGED <<test_results, pending>>
    /\ UNCHANGED <<lock, raised, calls, superCalls, files, filesAtStart, applets,
                   setupCalls, buildCalls, dxniCalls>>
    /\ UNCHANGED <<depVars, envVars, outVars, facVars>>

\* return super()._compile_executable(*args, **kwargs)
SuperCompile(t) ==
    /\ pc[t] = "super"
    /\ superCalls' = [superCalls EXCEPT ![t] = @ + 1]
    /\ pc' = [pc EXCEPT ![t] = "idle"]
    /\ UNCHANGED <<lock, pending, raised, calls, test_results, files, filesAtStart,
                   applets, setupCalls, buildCalls, dxniCalls>>
    /\ UNCHANGED <<depVars, envVars, outVars, facVars>>

ExtStart(existing, found) ==
    /\ lock = 0
    /\ pc = [t \in Tests |-> "idle"]
    /\ pending = [t \in Tests |-> None]
    /\ raised = [t \in Tests |-> FALSE]
    /\ calls = [t \in Tests |-> 0]
    /\ superCalls = [t \in Tests |-> 0]
    /\ test_results = [t \in Tests |-> {}]
    /\ files = existing
    /\ filesAtStart = existing
    /\ applets = found
    /\ setupCalls = 0
    /\ buildCalls = 0
    /\ dxniCalls = 0

ExtInit ==
    \E existing \in SUBSET {dx_extern_wdl},
       found \in {{}, {native_applets[1]}, {native_applets[i] : i \in 1..Len(native_applets)}} :
        ExtStart(existing, found)

ExtIdle == ExtStart({}, {})

\* ------------------------------------------------------------------------
\* Output formatter (src/cwl_runner/dx_cwl_runner/output_utils.py)
\* ------------------------------------------------------------------------
PyNone == [type |-> "NoneType", val |-> None]
PyInt(n) == [type |-> "int", val |-> n]
PyList(items) == [type |-> "list", val |-> items]
\* a dict keeps its items in insertion order: a sequence of <<key, value>>
PyDict(items) == [type |-> "dict", val |-> items]

FileIds == {"file-1", "file-2"}
\* what the platform stores under a file id: the file's name and its bytes
RemoteName(file_id) == IF file_id = "file-1" THEN "out.txt" ELSE "reads.bin"
RemoteBytes(file_id) == IF file_id = "file-1" THEN <<"b1", "b2", "b3">> ELSE <<"b9">>

\* {"$dnanexus_link": file_id}
FileRef(file_id) == PyDict(<< <<"$dnanexus_link", PyStr(file_id)>> >>)

\* dx.get_file_name(outdir, file_id)
get_file_name(outdir, file_id) == <<outdir, RemoteName(file_id)>>
\* utils.get_checksum(path), of the bytes that `dx download` wrote there
get_checksum(bytes) == <<"sha1", bytes>>

\* variant: the location is the directory, not the file's path in it
FileNamedByPath(output, outdir) ==
    LET file_id == output.val[1][2].val IN
    [download |-> file_id,
     file |-> [type |-> "File",
               val |-> [class |-> "File",
                        checksum |-> get_checksum(RemoteBytes(file_id)),
                        location |-> <<outdir>>,
                        size |-> Len(RemoteBytes(file_id))]]]
\* get_modified_output: the file id is the first value of the dict; one
\* `dx download` of it, then the descriptor of the file written
get_modified_output(output, outdir) ==
    LET file_id == output.val[1][2].val
        output_path == get_file_name(outdir, file_id) IN
    [download |-> file_id,
     file |-> [type |-> "File",
               val |-> [class |-> "File",
                        checksum |-> get_checksum(RemoteBytes(file_id)),
                        location |-> output_path,
                        size |-> Len(RemoteBytes(file_id))]]]

\* d[key] of a dict: a dict or a list is unhashable and is no key
dict_getitem(d, key) ==
    IF key.type \in {"dict", "list"} THEN [exc |-> "TypeError", val |-> PyNone]
    ELSE IF \E i \in 1..Len(d.val) : d.val[i][1] = key.val
         THEN [exc |-> None,
               val |-> d.val[CHOOSE i \in 1..Len(d.val) : d.val[i][1] = key.val][2]]
         ELSE [exc |-> "KeyError", val |-> PyNone]

\* lst[idx] = value of a list (idx from 0)
list_setitem(lst, idx, value) ==
    IF idx >= Len(lst.val) THEN [exc |-> "IndexError", val |-> lst]
    ELSE [exc |-> None, val |-> PyList([lst.val EXCEPT ![idx + 1] = value])]

\* f"{process_file}.{output}"
qualified(process_file, output) == <<process_file, ".", output>>

\* results[key] = value
dict_set(results, key, value) ==
    [k \in DOMAIN results \cup {key} |-> IF k = key THEN value ELSE results[k]]

\* the inner loop `for idx, value in enumerate(outputs[output])`, from idx on:
\* the element is read as outputs[outputs][idx]
RECURSIVE list_loop(_, _, _, _, _, _)
list_loop(idx, outputs, output, process_file, outdir, acc) ==
    LET lst == dict_getitem(outputs, PyStr(output)).val
        q == qualified(process_file, output) IN
    IF idx >= Len(lst.val) THEN acc
    ELSE LET sub == dict_getitem(outputs, outputs) IN
         IF sub.exc # None THEN [acc EXCEPT !.exc = sub.exc]
         ELSE LET m == get_modified_output(sub.val.val[idx + 1], outdir)
                  set == list_setitem(acc.results[q], idx, m.file) IN
              IF set.exc # None
              THEN [acc EXCEPT !.exc = set.exc,
                               !.downloaded = Append(@, m.download)]
              ELSE list_loop(idx + 1, outputs, output, process_file, outdir,
                     [acc EXCEPT !.results = dict_set(@, q, set.val),
                                 !.downloaded = Append(@, m.download)])

\* one pass of `for output in outputs`: the list branch, then the dict branch
\* or its else
one_output(outputs, output, process_file, outdir, acc) ==
    LET v == dict_getitem(outputs, PyStr(output)).val
        q == qualified(process_file, output)
        afterList ==
            IF v.type = "list"
            THEN list_loop(0, outputs, output, process_file, outdir,
                           [acc EXCEPT !.results = dict_set(@, q, PyList(<<>>))])
            ELSE acc IN
    IF afterList.exc # None THEN afterList
    ELSE IF v.type = "dict"
         THEN LET m == get_modified_output(v, outdir) IN
              [afterList EXCEPT !.results = dict_set(@, q, m.file),
                                !.downloaded = Append(@, m.download)]
         ELSE [afterList EXCEPT !.results = dict_set(@, q, v)]

RECURSIVE outputs_loop(_, _, _, _, _)
outputs_loop(i, outputs, process_file, outdir, acc) ==
    IF i > Len(outputs.val) \/ acc.exc # None THEN acc
    ELSE outputs_loop(i + 1, outputs, process_file, outdir,
                      one_output(outputs, outputs.val[i][1], process_file, outdir, acc))

\* variant: every state but "failed" passes
StateIsNotFailed(description) == description.state # PyStr("failed")
\* description.get("state") == "done"
state_is_done(description) == description.state = PyStr("done")

\* `if outputs:`
truthy(outputs) == outputs.type # "NoneType" /\ Len(outputs.val) > 0

EmptyRecord == [k \in {} |-> PyNone]

\* create_dx_output(job_id, process_file, outdir, dx), on the description
\* that `dx describe <job_id> --json` returned
create_dx_output(description, process_file, outdir) ==
    LET start == [results |-> EmptyRecord, downloaded |-> <<>>, exc |-> None] IN
    IF state_is_done(description) /\ truthy(description.output)
    THEN outputs_loop(1, description.output, process_file, outdir, start)
    ELSE start

CreateDxOutput ==
    /\ out.status = "called"
    /\ LET r == create_dx_output(job.description, job.process_file, job.outdir) IN
       out' = [status |-> IF r.exc = None THEN "returned" ELSE "raised",
               results |-> IF r.exc = None THEN r.results ELSE EmptyRecord,
               downloaded |-> r.downloaded, exc |-> r.exc]
    /\ UNCHANGED <<job, depVars, envVars, extVars, facVars>>

Keys == {"a", "b"}
Scalars == {PyInt(5), PyStr("s")}
FileRefs == {FileRef(f) : f \in FileIds}
Lists == {PyList(l) : l \in UNION {[1..n -> FileRefs] : n \in 0..MaxList}}
Values == Scalars \cup FileRefs \cup Lists
KeyOrders == {ks \in UNION {[1..n -> Keys] : n \in 0..Cardinality(Keys)} :
                \A i, j \in 1..Len(ks) : i # j => ks[i] # ks[j]}
Outputs == {PyNone} \cup
    UNION { {PyDict([i \in 1..Len(ks) |-> <<ks[i], vs[i]>>]) : vs \in [1..Len(ks) -> Values]}
            : ks \in KeyOrders }
JobStates == {PyStr("done"), PyStr("running"), PyStr("failed"), PyNone}

Called == [status |-> "called", results |-> EmptyRecord, downloaded |-> <<>>, exc |-> None]

OutInit ==
    /\ job \in [description : [state : JobStates, output : Outputs],
                process_file : {"proc"}, outdir : {"outdir"}]
    /\ out = Called

OutIdle ==
    /\ job = [description |-> [state |-> PyNone, output |-> PyNone],
              process_file |-> "proc", outdir |-> "outdir"]
    /\ out = Called

\* ------------------------------------------------------------------------
\* RegisteredTestFactory (src/dxcint/dxcint/RegisteredTestFactory.py)
\* ------------------------------------------------------------------------

\* test_type_switch, in the order it is written
test_type_switch ==
    << <<"mock_category", "RegisteredTest">>,
       <<"expected_failure", "ExpectedFailure">>,
       <<"expected_failure_message", "ExpectedFailureMessage">>,
       <<"expected_output", "ExpectedOutput">>,
       <<"analysis_finished", "AnalysisFinished">> >>

\* test_type_switch.keys()
switch_keys == [i \in 1..Len(test_type_switch) |-> test_type_switch[i][1]]

\* variant: the default of the lookup is the first test type
switch_get_or_first(category) ==
    IF \E i \in 1..Len(test_type_switch) : test_type_switch[i][1] = category
    THEN test_type_switch[CHOOSE i \in 1..Len(test_type_switch) :
                            test_type_switch[i][1] = category][2]
    ELSE test_type_switch[1][2]
\* test_type_switch.get(category, None)
switch_get(category) ==
    IF \E i \in 1..Len(test_type_switch) : test_type_switch[i][1] = category
    THEN test_type_switch[CHOOSE i \in 1..Len(test_type_switch) :
                            test_type_switch[i][1] = category][2]
    ELSE None

\* the text of the RegisteredTestError, in its pieces
error_text(category) ==
    <<"RegisteredTestFactory.register_test(): Category ", category,
      " is not recognized. Existing categories are ", "dict_keys(">>
    \o switch_keys \o
    <<")", ". Add new category and new test implementation as a subclass of RegisteredTest.">>

\* RegisteredTest.__init__(self, src_file, category, test_name)
RegisteredTest_init(args) ==
    IF Len(args) # 3 THEN [exc |-> "TypeError", test |-> None]
    ELSE [exc |-> None, test |-> "RegisteredTest"]

\* the constructors of the category subtypes
subtype_init(cls, args) == [exc |-> None, test |-> cls]

\* register_test(src_file, category, test_name, context)
register_test(src_file, category, test_name) ==
    /\ Len(regLog) < MaxRegs
    /\ LET registered_test == switch_get(category)
           args == <<src_file, category, test_name, "context">> IN
       IF registered_test = None
       THEN /\ regLog' = Append(regLog,
                    [src_file |-> src_file, category |-> category, test_name |-> test_name,
                     exc |-> "RegisteredTestError", text |-> error_text(category),
                     test |-> None, ctorsBefore |-> Len(ctorCalls), ctorsAfter |-> Len(ctorCalls)])
            /\ UNCHANGED ctorCalls
       ELSE LET made == IF registered_test = "RegisteredTest"
                        THEN RegisteredTest_init(args)
                        ELSE subtype_init(registered_test, args) IN
            /\ ctorCalls' = Append(ctorCalls, registered_test)
            /\ regLog' = Append(regLog,
                    [src_file |-> src_file, category |-> category, test_name |-> test_name,
                     exc |-> made.exc, text |-> <<>>,
                     test |-> made.test, ctorsBefore |-> Len(ctorCalls),
                     ctorsAfter |-> Len(ctorCalls')])
    /\ UNCHANGED <<depVars, envVars, extVars, outVars>>

Categories ==
    {switch_keys[i] : i \in 1..Len(switch_keys)}
    \cup {"", "extern_expected_output", "Expected_Output"}
SrcFiles == {"tests/foo.wdl", "tests/foo.cwl"}

FacInit ==
    /\ regLog = <<>>
    /\ ctorCalls = <<>>

\* ------------------------------------------------------------------------
\* Specifications
\* ------------------------------------------------------------------------
InitDependency == DepInit /\ EnvIdle /\ ExtIdle /\ OutIdle /\ FacInit
NextDependency == \E c \in Configs, fetchOk \in BOOLEAN : Resolve(c, fetchOk)
SpecDependency == InitDependency /\ [][NextDependency]_vars

InitDotEnv == EnvInit /\ DepIdle /\ ExtIdle /\ OutIdle /\ FacInit
NextDotEnv == \E h \in HomeDirs, dirOk \in BOOLEAN : update_dot_env(h, dirOk)
SpecDotEnv == InitDotEnv /\ [][NextDotEnv]_vars

InitExtern == ExtInit /\ DepIdle /\ EnvIdle /\ OutIdle /\ FacInit
NextExtern ==
    \E t \in Tests :
        \/ Call(t)
        \/ Acquire(t)
        \/ WithBody(t)
        \/ WithExit(t)
        \/ Except(t)
        \/ SuperCompile(t)
SpecExtern == InitExtern /\ [][NextExtern]_vars

InitOutput == OutInit /\ DepIdle /\ EnvIdle /\ ExtIdle /\ FacInit
NextOutput == CreateDxOutput
SpecOutput == InitOutput /\ [][NextOutput]_vars

InitFactory == FacInit /\ DepIdle /\ EnvIdle /\ ExtIdle /\ OutIdle
NextFactory ==
    \E src_file \in SrcFiles, category \in Categories :
        register_test(src_file, category, "foo")
SpecFactory == InitFactory /\ [][NextFactory]_vars

\* ------------------------------------------------------------------------
\* Properties of dependency resolution (SpecDependency)
\* ------------------------------------------------------------------------

\* C1: in a sequence of resolutions with the identical configuration, only the
\* first may issue a download; every later one issues none and returns the
\* path <root>/<name>/<version>/<name>, the same as the first returned.
C1_ResolveIdempotent ==
    /\ \A c \in Configs : downloads[c] <= 1
    /\ \A i, j \in 1..Len(resolutions) :
        (i < j /\ resolutions[i].cfg = resolutions[j].cfg) =>
            LET c == resolutions[j].cfg IN
            /\ ~resolutions[j].downloaded
            /\ resolutions[j].exc = None
            /\ resolutions[j].path = <<c.root, c.name, c.version, c.name>>
            /\ (resolutions[i].exc = None => resolutions[i].path = resolutions[j].path)

\* a first resolution that downloaded, and a second of the same configuration
C1_Witness ==
    \E i, j \in 1..Len(resolutions) :
        /\ i < j
        /\ resolutions[i].cfg = resolutions[j].cfg
        /\ resolutions[i].downloaded
        /\ resolutions[i].exc = None
        /\ ~resolutions[j].downloaded
        /\ resolutions[j].path = resolutions[i].path

\* C8 as stated: when the path is absent and the fetch exits non-zero, the
\* error that reaches the caller is a DependencyError and no path is returned.
C8_FetchFailureIsDependencyError ==
    \A i \in 1..Len(resolutions) :
        (~resolutions[i].existed /\ ~resolutions[i].fetchOk) =>
            /\ resolutions[i].exc = "DependencyError"
            /\ resolutions[i].path = <<>>

\* C8 as amended: when the path is absent and the fetch exits non-zero, the
\* fetch's own subprocess.CalledProcessError reaches the caller, after the
\* download command was issued, and no path is returned.
C8_FetchFailureIsCalledProcessError ==
    \A i \in 1..Len(resolutions) :
        (~resolutions[i].existed /\ ~resolutions[i].fetchOk) =>
            /\ resolutions[i].downloaded
            /\ resolutions[i].exc = "CalledProcessError"
            /\ resolutions[i].path = <<>>

\* a resolution of an absent path whose fetch failed
C8_Witness ==
    \E i \in 1..Len(resolutions) :
        /\ ~resolutions[i].existed
        /\ ~resolutions[i].fetchOk
        /\ resolutions[i].downloaded

\* C10: whenever the local path exists it holds a completely fetched,
\* executable artifact, so that a resolution that returns without downloading
\* returns only what an earlier fetch completed.
C10_ExistingPathIsComplete ==
    \A c \in Configs :
        fs[c].kind # "absent" => (fs[c].fetched /\ fs[c].mode = "0o775")

\* ------------------------------------------------------------------------
\* Properties of update_dot_env (SpecDotEnv)
\* ------------------------------------------------------------------------

\* C7: a home_dir whose text does not end in "home/dnanexus" is rejected with
\* a DependencyError and every .env file is left as it was; a NAME=VERSION
\* line is appended only when the text ends in the suffix.
C7_WrongSuffixRejected ==
    LET h == lastUpdate.home_dir
        text == Flatten(h)
        suffix == <<"h", "o", "m", "e", "/", "d", "n", "a", "n", "e", "x", "u", "s">>
        ends == /\ Len(text) >= Len(suffix)
                /\ \A k \in 1..Len(suffix) : text[Len(text) - Len(suffix) + k] = suffix[k]
    IN  lastUpdate # NoUpdate =>
            /\ dot_env = lastUpdate.after
            /\ ~ends =>
                /\ lastUpdate.exc = "DependencyError"
                /\ lastUpdate.after = lastUpdate.before
                /\ FileLines(lastUpdate.after, <<h, ".env">>)
                     = FileLines(lastUpdate.before, <<h, ".env">>)
            /\ lastUpdate.after # lastUpdate.before =>
                /\ ends
                /\ lastUpdate.after = Append(lastUpdate.before,
                       [file |-> <<h, ".env">>,
                        line |-> <<instance.name, "=", instance.version, "\n">>])

\* "home/dnanexus/" is rejected after a line was appended for "home/dnanexus"
C7_Witness ==
    /\ lastUpdate.home_dir = <<"home/dnanexus", "/">>
    /\ lastUpdate.exc = "DependencyError"
    /\ Len(dot_env) = 1
    /\ dot_env[1].file = <<<<"home/dnanexus">>, ".env">>

\* ------------------------------------------------------------------------
\* Properties of ExternExpectedOutput._compile_executable (SpecExtern)
\* ------------------------------------------------------------------------

\* C2: when the interface file does not exist at the start and every test has
\* run _compile_executable once, _native_call_setup has run exactly once.
C2_ExactlyOneSetup ==
    (/\ dx_extern_wdl \notin filesAtStart
     /\ \A t \in Tests : calls[t] = 1 /\ pc[t] = "idle")
    => setupCalls = 1

\* C9: the inherited compile step runs exactly once per call and only when the
\* caller does not hold the lock; an exception of the guarded setup never
\* propagates, never leaves the lock held, and has set the test's results to
\* the 'Error creating extern' failure before the inherited compile runs.
C9_InheritedCompileOncePerCall ==
    \A t \in Tests :
        /\ pc[t] # "propagated"
        /\ superCalls[t] = (IF pc[t] = "idle" THEN calls[t] ELSE calls[t] - 1)
        /\ pc[t] \in {"idle", "acquire", "except", "super"} => lock # t
        /\ (pc[t] = "super" /\ raised[t]) =>
            /\ test_results[t] = {"False", "Error creating extern"}
            /\ pending[t] = None

\* a test whose setup raised is about to run the inherited compile while
\* another test holds the lock
C9_Witness ==
    \E t \in Tests :
        /\ pc[t] = "super"
        /\ raised[t]
        /\ lock \notin {0, t}
        /\ test_results[t] = {"False", "Error creating extern"}

\* ------------------------------------------------------------------------
\* Properties of create_dx_output (SpecOutput)
\* ------------------------------------------------------------------------

\* the File descriptor of the file stored under file_id, downloaded to outdir
Descriptor(file_id, outdir) ==
    [type |-> "File",
     val |-> [class |-> "File",
              checksum |-> <<"sha1", RemoteBytes(file_id)>>,
              location |-> <<outdir, RemoteName(file_id)>>,
              size |-> Len(RemoteBytes(file_id))]]

\* the job is done and its outputs are a scalar under a (at i) and a file
\* reference under b (at j)
ScalarAFileB(i, j) ==
    LET o == job.description.output IN
    /\ job.description.state = PyStr("done")
    /\ o.type = "dict"
    /\ Len(o.val) = 2
    /\ {i, j} = {1, 2}
    /\ o.val[i][1] = "a" /\ o.val[i][2].type \in {"int", "str"}
    /\ o.val[j][1] = "b" /\ o.val[j][2].type = "dict"

\* C3: for a done job with a scalar under a and a file reference under b the
\* record has exactly the keys <process>.a and <process>.b, the scalar copied
\* through and the File descriptor of b's file; one download is issued, for b.
C3_ScalarAndFile ==
    \A i, j \in 1..2 :
        (out.status # "called" /\ ScalarAFileB(i, j)) =>
            LET o == job.description.output
                file_id == o.val[j][2].val[1][2].val
                qa == <<job.process_file, ".", "a">>
                qb == <<job.process_file, ".", "b">>
            IN  /\ out.status = "returned"
                /\ DOMAIN out.results = {qa, qb}
                /\ out.results[qa] = o.val[i][2]
                /\ out.results[qb] = Descriptor(file_id, job.outdir)
                /\ out.downloaded = <<file_id>>

\* the call has returned for outputs {b: file reference, a: scalar}
C3_Witness ==
    /\ out.status = "returned"
    /\ ScalarAFileB(2, 1)
    /\ Len(out.downloaded) = 1

\* C4: for a done job with an output that is a list of n >= 1 file references
\* the call completes without error and the record entry is the list of the n
\* File descriptors, in the order of the output's list.
C4_ListOfFiles ==
    LET o == job.description.output IN
    \A i \in 1..2 :
        (/\ out.status # "called"
         /\ job.description.state = PyStr("done")
         /\ o.type = "dict"
         /\ i <= Len(o.val)
         /\ o.val[i][2].type = "list"
         /\ Len(o.val[i][2].val) >= 1)
        => LET q == <<job.process_file, ".", o.val[i][1]>>
               lst == o.val[i][2].val
           IN  /\ out.status = "returned"
               /\ q \in DOMAIN out.results
               /\ out.results[q].type = "list"
               /\ Len(out.results[q].val) = Len(lst)
               /\ \A k \in 1..Len(lst) :
                    out.results[q].val[k] = Descriptor(lst[k].val[1][2].val, job.outdir)

\* C5: for a job whose state is not "done" the call returns the empty record,
\* whatever the output field holds, and issues no download.
C5_NotDoneEmptyRecord ==
    (out.status # "called" /\ job.description.state # PyStr("done")) =>
        /\ out.status = "returned"
        /\ DOMAIN out.results = {}
        /\ out.downloaded = <<>>

\* the call has returned for a failed job whose outputs hold a file reference
C5_Witness ==
    /\ out.status = "returned"
    /\ job.description.state = PyStr("failed")
    /\ job.description.output.type = "dict"
    /\ \E i \in 1..Len(job.description.output.val) :
        job.description.output.val[i][2].type = "dict"

\* ------------------------------------------------------------------------
\* Properties of register_test (SpecFactory)
\* ------------------------------------------------------------------------

\* C6: a category that is no key of the mapping is rejected with a
\* RegisteredTestError whose text holds the category and every valid category,
\* and no constructor of a test type is called for it.
C6_UnknownCategoryRejected ==
    LET valid == {"mock_category", "expected_failure", "expected_failure_message",
                  "expected_output", "analysis_finished"}
        unknown == {i \in 1..Len(regLog) : regLog[i].category \notin valid}
    IN  /\ \A i \in unknown :
            /\ regLog[i].exc = "RegisteredTestError"
            /\ \E k \in 1..Len(regLog[i].text) : regLog[i].text[k] = regLog[i].category
            /\ \A v \in valid : \E k \in 1..Len(regLog[i].text) : regLog[i].text[k] = v
            /\ regLog[i].test = None
            /\ regLog[i].ctorsAfter = regLog[i].ctorsBefore
        /\ Len(ctorCalls) = Len(regLog) - Cardinality(unknown)

\* the empty category is rejected after a test of a known category was made
C6_Witness ==
    /\ Len(regLog) = 2
    /\ regLog[1].category = "expected_output"
    /\ regLog[2].category = ""
    /\ regLog[2].exc = "RegisteredTestError"
    /\ Len(ctorCalls) = 1

====
